---- MODULE Spec2Model ----
(***************************************************************************)
(* State-machine model of tauri-plugin-llm: the LLMService registry, the   *)
(* LLMRuntime worker with its control inbox and response outbox, and the   *)
(* Mock and LocalRuntime generation loops.                                 *)
(***************************************************************************)
EXTENDS Integers, Sequences, FiniteSets, TLC

\* ---------------------------------------------------------------- bounds
MaxLen == 3        \* longest message content, in bytes
MaxChunk == 2      \* largest explicit chunk_size
MaxTokens == 2     \* largest explicit max_tokens
MaxPrompts == 2    \* prompts sent over one run
MaxExits == 1      \* shutdown() calls over one run
MaxRuntimes == 2   \* runtimes a service creates over one run
MaxServicePrompts == 1  \* prompts sent through a service over one run
MaxAdds == 1       \* add_config calls over one run
MaxStreams == 2    \* invocations of the stream command that contend for the lock
MaxCommands == 1   \* invocations of the stream command over one run
MaxTemplate == 3   \* parts of the longest chat template
MaxSegments == 3   \* parts of the longest text given to a tool-call parser
MaxId == 4         \* characters of the longest repository identifier
MaxNameParts == 2  \* parts of the longest configuration name

\* ------------------------------------------------------ program constants
DefaultChunkSize == 32    \* LLMRuntimeModel::default_chunksize
DefaultMaxTokens == 500   \* max_tokens.unwrap_or(500)
NoticeLen == 52           \* "No messages for the Mock runtime have been provided."

\* ------------------------------------------------------------ data model
\* Option<T>: None is the empty set, Some(v) the singleton {v}.
None == {}
Some(v) == {v}
UnwrapOr(o, d) == IF o = {} THEN d ELSE CHOOSE v \in o : TRUE

\* A model name is the sequence of its parts, so that a prefix or substring
\* test is computed on the name instead of being assumed.
MockName == <<"Mock">>
Mock2Name == <<"Mock", "2">>
QwenName == <<"Qwen", "3">>
StartsWith(name, part) == Len(name) >= 1 /\ name[1] = part
\* str::contains on a name: the part "Llama3" holds "Llama".
Contains(name, part) ==
  \E i \in 1..Len(name) :
    name[i] = part \/ (name[i] = "Llama3" /\ part = "Llama")

\* str::eq_ignore_ascii_case on the role strings that occur.
ToAsciiLower(s) ==
  CASE s = "USER" -> "user"
    [] s = "User" -> "user"
    [] s = "SYSTEM" -> "system"
    [] OTHER -> s
EqIgnoreAsciiCase(a, b) == ToAsciiLower(a) = ToAsciiLower(b)

\* The content of a message is the sequence of its bytes; byte i of a
\* content of length n is written i, so that order and loss are visible.
Bytes(n) == [i \in 1..n |-> i]
QueryMessage(role, n) == [role |-> role, content |-> Bytes(n)]

\* Query::Prompt.  pid is the position of the prompt in the order of the
\* send_stream calls; the program does not carry it, the properties do.
Prompt(pid, messages, chunk_size, max_tokens, model) ==
  [type |-> "Prompt", pid |-> pid, messages |-> messages, tools |-> <<>>,
   chunk_size |-> chunk_size, max_tokens |-> max_tokens, model |-> model]
\* The same prompt with one tool described in its tools field.
WithTools(q) == [q EXCEPT !.tools = <<"tool">>]
Exit == [type |-> "Exit"]
Chunk(pid, id, data, kind) ==
  [type |-> "Chunk", pid |-> pid, id |-> id, data |-> data, kind |-> kind]
End(pid, usage) == [type |-> "End", pid |-> pid, usage |-> usage]
Status(pid, msg) == [type |-> "Status", pid |-> pid, msg |-> msg]
TokenUsage(p, c) ==
  [prompt_tokens |-> p, completion_tokens |-> c, total_tokens |-> p + c]

\* role.len() of the role strings that occur; any other role counts as
\* "assistant".
RoleLen(role) ==
  CASE role = "user" -> 4
    [] role = "USER" -> 4
    [] role = "User" -> 4
    [] role = "system" -> 6
    [] role = "SYSTEM" -> 6
    [] OTHER -> 9

\* serde_json::to_vec(&messages).len(): [{"role":"..","content":".."},..]
RECURSIVE JsonObjectsLen(_, _)
JsonObjectsLen(messages, i) ==
  IF i > Len(messages) THEN 0
  ELSE 24 + RoleLen(messages[i].role) + Len(messages[i].content)
       + JsonObjectsLen(messages, i + 1)
JsonLen(messages) ==
  2 + JsonObjectsLen(messages, 1)
    + (IF Len(messages) > 1 THEN Len(messages) - 1 ELSE 0)

\* ------------------------------------------------------------ Mock runtime
Min(S) == CHOOSE x \in S : \A y \in S : x <= y

\* Faulty variant: the first message is echoed whatever its role.
MockMessageBytesFirst(messages) ==
  IF Len(messages) = 0 THEN Some(Bytes(NoticeLen))
  ELSE Some(messages[1].content)

\* The bytes the Mock echoes: None stands for Err(UnexpectedMessage).
MockMessageBytes(messages) ==
  IF Len(messages) = 0 THEN Some(Bytes(NoticeLen))
  ELSE IF Len(messages) = 1 THEN Some(messages[1].content)
  ELSE LET users == {i \in 1..Len(messages) :
                       EqIgnoreAsciiCase(messages[i].role, "user")}
       IN IF users = {} THEN None ELSE Some(messages[Min(users)].content)

\* The id given to the chunk of the last, partial window.
MockLastChunkId(id) == id + 1

\* The loop over the bytes: `chunks` is the window being filled, `id` the
\* counter, `out` the chunks sent so far.
RECURSIVE MockLoop(_, _, _, _, _, _, _)
MockLoop(pid, bytes, i, chunks, id, out, chunk_size) ==
  IF i > Len(bytes)
  THEN IF chunks # <<>>
       THEN Append(out, Chunk(pid, MockLastChunkId(id), chunks, "String"))
       ELSE out
  ELSE LET pushed == Append(chunks, bytes[i])
       IN IF Len(pushed) = chunk_size
          THEN MockLoop(pid, bytes, i + 1, <<>>, id + 1,
                        Append(out, Chunk(pid, id, pushed, "String")), chunk_size)
          ELSE MockLoop(pid, bytes, i + 1, pushed, id, out, chunk_size)

\* Mock::inference: the chunks it sends, in order, and what it returns.
MockInference(q) ==
  LET bytes == MockMessageBytes(q.messages)
      chunk_size == UnwrapOr(q.chunk_size, DefaultChunkSize)
  IN IF bytes = None
     THEN [sends |-> <<>>, err |-> Some("UnexpectedMessage"), usage |-> None]
     ELSE LET b == UnwrapOr(bytes, <<>>)
          IN [sends |-> MockLoop(q.pid, b, 1, <<>>, 0, <<>>, chunk_size),
              err |-> None,
              usage |-> Some(TokenUsage(JsonLen(q.messages), Len(b)))]

\* ----------------------------------------------------------------- chunks
\* Chunks::next over a sequence that ends once: take(size) of what is left,
\* None for an empty window.
RECURSIVE Chunks(_, _)
Chunks(seq, size) ==
  LET items == SubSeq(seq, 1, IF size < Len(seq) THEN size ELSE Len(seq))
  IN IF items = <<>> THEN <<>>
     ELSE <<items>> \o Chunks(SubSeq(seq, Len(items) + 1, Len(seq)), size)

\* ----------------------------------------------------------- LocalRuntime
\* A generated token: k is its position in all_tokens, t tells whether it
\* is the end-of-sequence token of the vocabulary, a token whose text is a
\* whole <tool_call>..</tool_call> segment, or any other token.
Token(k, t) == [k |-> k, t |-> t]
TokenKinds == {"tok", "eos", "call"}
\* What one forward pass followed by sampling gives: a token kind, or None
\* for an error of the tensor operations or of the sampler.  Tool-call text
\* is considered only for a prompt that describes tools.
ForwardOutcomes(q) ==
  {Some(t) : t \in IF q.tools = <<>> THEN TokenKinds \ {"call"} ELSE TokenKinds}
  \cup {None}

\* The prompt rendered without a template: "role: content" joined by "\n".
RECURSIVE RenderedLen(_, _)
RenderedLen(messages, i) ==
  IF i > Len(messages) THEN 0
  ELSE RoleLen(messages[i].role) + 2 + Len(messages[i].content)
       + (IF i < Len(messages) THEN 1 ELSE 0) + RenderedLen(messages, i + 1)
\* tokenizer.encode(text, true): one id per byte and the leading special token.
EncodeLen(messages) == RenderedLen(messages, 1) + 1
\* tokenizer.decode(tokens, true) skips the special tokens.
Decode(tokens) == SelectSeq(tokens, LAMBDA x : x.t # "eos")

\* Faulty variant: the limit is off by one.
GenerateNumSamplesPlusOne(q) == UnwrapOr(q.max_tokens, DefaultMaxTokens) + 1
GenerateNumSamples(q) == UnwrapOr(q.max_tokens, DefaultMaxTokens)

\* LocalRuntime::load_safetensor_weights: the weights are chosen by the name
\* of the configuration.
LoadSafetensorWeights(name) == IF Contains(name, "Qwen") THEN "Qwen3" ELSE "Llama"

\* Faulty variant: no family resets its cache.
ClearKvCacheNever(weights, kv) == kv
\* ModelWeights::clear_kv_cache.  The cache is the set of the prompts whose
\* keys and values it holds: Llama gets a new cache, Qwen3 keeps its own.
ClearKvCache(weights, kv) == IF weights = "Llama" THEN {} ELSE kv

\* ModelBackend::tool_call_parser of the backends: each family has a parser.
ToolCallParser(model) == IF model = "Local" THEN Some("Qwen3") ELSE None
\* The parts of a text that begin with <tool_call>: one that holds a call,
\* one whose JSON is malformed, one without name, one without arguments.
SegmentKinds == {"call", "malformed", "noname", "noargs"}
\* ToolCall::new(format!("call_{idx}"), name, arguments)
ToolCall(idx, segment) == [id |-> idx, call |-> segment.k]
\* The loop of Qwen3ToolCallParser::parse over the enumerated segments.
RECURSIVE ParseSegments(_, _)
ParseSegments(segments, idx) ==
  IF idx >= Len(segments) THEN <<>>
  ELSE (IF segments[idx + 1].t = "call"
        THEN <<ToolCall(idx, segments[idx + 1])>> ELSE <<>>)
       \o ParseSegments(segments, idx + 1)
\* Qwen3ToolCallParser::parse: the calls of the <tool_call> segments of the
\* text, None when there is none.
Parse(text) ==
  LET calls == ParseSegments(SelectSeq(text, LAMBDA x : x.t \in SegmentKinds), 0)
  IN IF calls = <<>> THEN None ELSE Some(calls)

\* The generation state of LocalRuntime::inference after the prefill.
\* forwards counts the forward passes run, delivered the tokens of the
\* windows sent as chunks and windows lists those windows; the program keeps
\* none of them.
LocalGenInit(q, t) ==
  [first |-> TRUE, next_token |-> Token(1, t), all_tokens |-> <<Token(1, t)>>,
   index |-> 0, done |-> FALSE, sample_error |-> None,
   items |-> <<>>, closed |-> FALSE, id |-> 0, forwards |-> 1,
   prompt_tokens |-> EncodeLen(q.messages), delivered |-> 0, windows |-> <<>>]
NoGen ==
  [first |-> FALSE, next_token |-> Token(0, "tok"), all_tokens |-> <<>>,
   index |-> 0, done |-> FALSE, sample_error |-> None,
   items |-> <<>>, closed |-> FALSE, id |-> 0, forwards |-> 0,
   prompt_tokens |-> 0, delivered |-> 0, windows |-> <<>>]

\* The closure given to iter::from_fn: one call with the outcome of its
\* forward pass.  Returns the new state and the item it yields.
FromFnNext(g, max, eos_token_ids, outcome) ==
  IF g.done \/ g.index >= max
  THEN [g |-> g, item |-> None]
  ELSE LET g1 == [g EXCEPT !.index = @ + 1, !.forwards = @ + 1]
       IN IF outcome = None
          THEN [g |-> [g1 EXCEPT !.sample_error = Some("ExecutionError")],
                item |-> None]
          ELSE LET token == Token(Len(g.all_tokens) + 1, UnwrapOr(outcome, "tok"))
               IN [g |-> [g1 EXCEPT !.next_token = token,
                                    !.all_tokens = Append(@, token),
                                    !.done = token.t \in eos_token_ids],
                   item |-> Some(token)]

\* once(next_token).chain(from_fn(..)).next()
TokenIterNext(g, max, eos_token_ids, outcome) ==
  IF g.first
  THEN [g |-> [g EXCEPT !.first = FALSE], item |-> Some(g.next_token)]
  ELSE FromFnNext(g, max, eos_token_ids, outcome)

\* Whether the next call of the token iterator runs a forward pass.
RunsForward(g, max) == ~g.first /\ ~g.done /\ g.index < max

\* ------------------------------------------------------------------ state
VARIABLES
  configs,   \* LLMService.configs: the registered configurations
  active,    \* LLMService.active: None or Some(runtime)
  rt,        \* the LLMRuntime objects: life cycle and configuration
  control,   \* per runtime, the control inbox (an mpsc channel)
  outbox,    \* per runtime, every message put on the response channel
  rcvd,      \* per runtime, how many of them recv_stream has returned
  wk,        \* per runtime, the worker spawned by run_stream
  log,       \* history: what happened to each prompt
  ret,       \* what the caller's last call returned
  host,      \* the stream command and the events it has emitted to the host
  lib        \* the latest call of a function that needs no runtime

vars == <<configs, active, rt, control, outbox, rcvd, wk, log, ret, host, lib>>

Runtimes == 1..MaxRuntimes

\* A configuration: its name, and whether eos_token_id resolves to ids of
\* the tokenizer vocabulary.
Config(name, eos) == [name |-> name, eos_token_ids |-> eos]
NoConfig == Config(<<>>, {})

NoPrompt == Prompt(0, <<>>, None, None, None)

\* The worker before it is spawned.
NoWorker ==
  [pc |-> "none", current_model |-> "none", q |-> NoPrompt, todo |-> <<>>,
   usage |-> None, err |-> "", g |-> NoGen, creates |-> 0, inits |-> 0,
   weights |-> "none", kv |-> {}]

NoRuntime == [state |-> "absent", config |-> NoConfig]

\* A call of a function that needs no runtime: its name, argument and result.
Call(op, arg, result) == [op |-> op, arg |-> arg, result |-> result]
NoCall == Call("none", <<>>, <<>>)

\* The stream command: whether it is in its receive loop (and so holds the
\* lock on the service), what the last invocation returned, the events
\* emitted so far, and how many invocations there were.  lost holds the
\* outbox messages whose emit failed, message the argument of the last
\* invocation.
NoHost == [pc |-> "idle", result |-> "Ok", events |-> <<>>, calls |-> 0,
           lost |-> {}, message |-> None]

\* sent, exits, made count the send_stream calls, the shutdown calls and the
\* runtimes created.  The other fields are sets of <<runtime, pid>>: the
\* prompts put on an inbox (queued), those put there ahead of the first
\* Exit (before) or behind an Exit (behind), those the worker took from the
\* inbox (taken), and those whose execute returned Ok (ok).  failed records the
\* prompts whose processing failed, each with its error and whether it was
\* create_model or init that failed.  spawns counts, per runtime, the workers
\* spawned on its control receiver.  adds counts the add_config calls,
\* raw is the argument of the last of them, registered holds the names given
\* to the registry so far, added those given by add_config, and call the
\* name of the last activate call made since the registry last changed.
EmptyLog ==
  [sent |-> 0, exits |-> 0, made |-> 0, queued |-> {}, before |-> {},
   behind |-> {}, taken |-> {}, ok |-> {}, failed |-> {},
   spawns |-> [r \in Runtimes |-> 0],
   adds |-> 0, raw |-> None, registered |-> {}, added |-> {}, call |-> None]
\* A worker has been spawned on the control receiver of runtime r.
Spawned(l, r) == [l EXCEPT !.spawns[r] = @ + 1]
Failure(r, pid, err, init) == [r |-> r, pid |-> pid, err |-> err, init |-> init]

\* The receiving half of the response channel lives in the LLMRuntime.
OutboxOpen(r) == rt[r].state \in {"created", "running"}
\* The receiving half of the control channel lives in the LLMRuntime until
\* run_stream moves it into the worker, which drops it when it returns.
ControlOpen(r) ==
  \/ rt[r].state = "created"
  \/ rt[r].state \in {"running", "dropped"} /\ wk[r].pc \notin {"none", "done"}
\* A worker that has been spawned and has not returned.
Running(r) == wk[r].pc \notin {"none", "done"}

\* response_tx.send(msg) for each of msgs: they are put on the channel
\* unless the receiver is gone.
SendOut(box, r, msgs) ==
  IF OutboxOpen(r) THEN [box EXCEPT ![r] = @ \o msgs] ELSE box

\* --------------------------------------------------------------- worker
\* LLMRuntime::create_model: the backend chosen for a model name.
CreateModel(name) == IF StartsWith(name, "Mock") THEN "Mock" ELSE "Local"

\* Faulty variant: the newest message is taken first.
RecvNewest(inbox) == Len(inbox)

\* control_rx.recv(): the position in the inbox of the message it returns.
RecvIndex(inbox) == 1

\* Faulty variant: Exit falls into the arm of the ignored queries.
HandleControlIgnoreExit(msg, current_model) ==
  IF msg.type = "Prompt"
  THEN IF current_model = "none" THEN "create" ELSE "execute"
  ELSE "recv"

\* Faulty variant: every prompt creates and initializes a model.
HandleControlAlwaysCreate(msg, current_model) ==
  IF msg.type = "Prompt" THEN "create"
  ELSE IF msg.type = "Exit" THEN "done" ELSE "recv"

\* The match on the received message: where the worker goes next.
HandleControl(msg, current_model) ==
  IF msg.type = "Prompt"
  THEN IF current_model = "none" THEN "create" ELSE "execute"
  ELSE IF msg.type = "Exit" THEN "done" ELSE "recv"

\* Faulty variant: the failure is logged and nothing is sent.
ErrorReportLogOnly(pid, error) == <<>>

\* What the worker sends when create_model, init or execute has failed.
ErrorReport(pid, error) == <<Status(pid, error)>>

\* Faulty variant: the worker goes on waiting after a failed init.
AfterInitErrorContinue == "recv"

\* What the worker does after init has failed and the Status has been sent.
AfterInitError == "done"

\* What the worker does after execute has returned an error and the Status
\* has been sent.
AfterExecuteError == "done"

\* Faulty variant: execute returns Ok without sending End.
AfterInferenceNoEnd(err) == IF err = None THEN "recv" ELSE "fail"

\* What execute does after inference has returned: Ok sends End, Err returns.
AfterInference(err) == IF err = None THEN "end" ELSE "fail"

\* m.execute(message, ..) is entered: Mock::inference or LocalRuntime::inference.
BeginExecute(w, q) ==
  IF w.current_model = "Mock"
  THEN LET inf == MockInference(q)
       IN [w EXCEPT !.pc = "mock", !.q = q, !.todo = inf.sends,
                    !.usage = inf.usage,
                    !.err = UnwrapOr(inf.err, ""), !.g = NoGen]
  ELSE [w EXCEPT !.pc = "prefill", !.q = q, !.todo = <<>>, !.usage = None,
                 !.err = "", !.g = NoGen]

RemoveAt(seq, i) == SubSeq(seq, 1, i - 1) \o SubSeq(seq, i + 1, Len(seq))

\* The worker takes the next control message.
WorkerRecv(r) ==
  /\ wk[r].pc = "recv"
  /\ control[r] # <<>>
  /\ LET i == RecvIndex(control[r])
         msg == control[r][i]
         to == HandleControl(msg, wk[r].current_model)
     IN /\ control' = [control EXCEPT ![r] = RemoveAt(@, i)]
        /\ wk' = [wk EXCEPT ![r] =
                    IF to = "execute" THEN BeginExecute(@, msg)
                    ELSE IF to = "create" THEN [@ EXCEPT !.pc = "create", !.q = msg]
                    ELSE [@ EXCEPT !.pc = to]]
        /\ log' = IF msg.type = "Prompt" /\ to \in {"create", "execute"}
                  THEN [log EXCEPT !.taken = @ \cup {<<r, msg.pid>>}] ELSE log
  /\ UNCHANGED <<lib, host, configs, active, rt, outbox, rcvd, ret>>

\* The first prompt: create_model and init.  Mock::init always succeeds,
\* LocalRuntime::init fails when an artefact is missing or malformed.
WorkerCreate(r) ==
  /\ wk[r].pc = "create"
  /\ LET q == wk[r].q
         model == CreateModel(UnwrapOr(q.model, rt[r].config.name))
     IN \E init_ok \in BOOLEAN :
          /\ model = "Mock" => init_ok
          /\ wk' = [wk EXCEPT ![r] =
                 IF init_ok
                 THEN BeginExecute([@ EXCEPT !.current_model = model,
                                             !.creates = @ + 1,
                                             !.inits = @ + 1,
                                             !.weights =
                                               IF model = "Mock" THEN "none"
                                               ELSE LoadSafetensorWeights(
                                                      rt[r].config.name)], q)
                 ELSE [@ EXCEPT !.pc = "initfail", !.creates = @ + 1,
                                !.inits = @ + 1, !.err = "MissingConfigLLM"]]
  /\ UNCHANGED <<lib, host, configs, active, rt, control, outbox, rcvd, log, ret>>

\* init failed: the worker sends Status and leaves the loop.
WorkerInitFail(r) ==
  /\ wk[r].pc = "initfail"
  /\ outbox' = SendOut(outbox, r, ErrorReport(wk[r].q.pid, wk[r].err))
  /\ wk' = [wk EXCEPT ![r].pc = AfterInitError]
  /\ log' = [log EXCEPT !.failed =
               @ \cup {Failure(r, wk[r].q.pid, wk[r].err, TRUE)}]
  /\ UNCHANGED <<lib, host, configs, active, rt, control, rcvd, ret>>

\* Mock::inference: the next chunk is sent, or inference returns.
MockStep(r) ==
  /\ wk[r].pc = "mock"
  /\ IF wk[r].todo # <<>> /\ wk[r].err = ""
     THEN IF OutboxOpen(r)
          THEN /\ outbox' = SendOut(outbox, r, <<Head(wk[r].todo)>>)
               /\ wk' = [wk EXCEPT ![r].todo = Tail(@)]
          ELSE /\ wk' = [wk EXCEPT ![r].pc = "fail", ![r].err = "StreamError"]
               /\ UNCHANGED outbox
     ELSE /\ wk' = [wk EXCEPT ![r].pc =
                      AfterInference(IF wk[r].err = "" THEN None
                                     ELSE Some(wk[r].err))]
          /\ UNCHANGED outbox
  /\ UNCHANGED <<lib, host, configs, active, rt, control, rcvd, log, ret>>

\* execute sends End after inference has returned Ok.
WorkerEnd(r) ==
  /\ wk[r].pc = "end"
  /\ IF OutboxOpen(r)
     THEN /\ outbox' = SendOut(outbox, r, <<End(wk[r].q.pid, wk[r].usage)>>)
          /\ wk' = [wk EXCEPT ![r].pc = "recv"]
          /\ log' = [log EXCEPT !.ok = @ \cup {<<r, wk[r].q.pid>>}]
     ELSE /\ wk' = [wk EXCEPT ![r].pc = "fail", ![r].err = "StreamError"]
          /\ UNCHANGED <<outbox, log>>
  /\ UNCHANGED <<lib, host, configs, active, rt, control, rcvd, ret>>

\* execute returned an error: the worker sends Status.
WorkerFail(r) ==
  /\ wk[r].pc = "fail"
  /\ outbox' = SendOut(outbox, r, ErrorReport(wk[r].q.pid, wk[r].err))
  /\ wk' = [wk EXCEPT ![r].pc = AfterExecuteError]
  /\ log' = [log EXCEPT !.failed =
               @ \cup {Failure(r, wk[r].q.pid, wk[r].err, FALSE)}]
  /\ UNCHANGED <<lib, host, configs, active, rt, control, rcvd, ret>>

\* ------------------------------------------- LocalRuntime::inference steps
ChunkSize(q) == UnwrapOr(q.chunk_size, DefaultChunkSize)

\* Faulty variant: the windows are numbered from one.
LocalChunkIdFromOne(g) == g.id + 1
\* The id of the chunk sent for a window: its position given by enumerate().
LocalChunkId(g) == g.id

\* What inference returns after the loop over the chunks.
LocalReturn(g) == g.sample_error

\* Template, encoding, clear_kv_cache, the prefill forward pass and the
\* first sample; any of them may fail, and then nothing has been sent.  The
\* model is dropped with the worker after a failure, so the cache a failed
\* prefill leaves is never read.
LocalPrefill(r) ==
  /\ wk[r].pc = "prefill"
  /\ \E outcome \in ForwardOutcomes(wk[r].q) :
       wk' = [wk EXCEPT ![r] =
                IF outcome = None
                THEN [@ EXCEPT !.pc = "fail", !.err = "ExecutionError"]
                ELSE [@ EXCEPT !.pc = "chunks",
                               !.kv = ClearKvCache(wk[r].weights, @)
                                        \cup {wk[r].q.pid},
                               !.g = LocalGenInit(wk[r].q, UnwrapOr(outcome, "tok"))]]
  /\ UNCHANGED <<lib, host, configs, active, rt, control, outbox, rcvd, log, ret>>

\* Chunks::next is filling a window: take(size) asks the token iterator for
\* one more item.
LocalNext(r) ==
  /\ wk[r].pc = "chunks"
  /\ ~wk[r].g.closed
  /\ Len(wk[r].g.items) < ChunkSize(wk[r].q)
  /\ \E outcome \in ForwardOutcomes(wk[r].q) :
       LET step == TokenIterNext(wk[r].g, GenerateNumSamples(wk[r].q),
                                 rt[r].config.eos_token_ids, outcome)
       IN wk' = [wk EXCEPT ![r].g =
                   IF step.item = None
                   THEN [step.g EXCEPT !.closed = TRUE]
                   ELSE [step.g EXCEPT !.items =
                           Append(@, UnwrapOr(step.item, Token(0, "tok")))]]
  /\ UNCHANGED <<lib, host, configs, active, rt, control, outbox, rcvd, log, ret>>

\* Chunks::next has returned: an empty window ends the loop and inference
\* returns, any other window is decoded and sent as one chunk.
LocalEmit(r) ==
  /\ wk[r].pc = "chunks"
  /\ wk[r].g.closed \/ Len(wk[r].g.items) = ChunkSize(wk[r].q)
  /\ LET g == wk[r].g
     IN IF g.items = <<>>
        THEN /\ wk' = [wk EXCEPT ![r].pc = AfterInference(LocalReturn(g)),
                                 ![r].err = UnwrapOr(LocalReturn(g), ""),
                                 ![r].usage =
                                   Some(TokenUsage(g.prompt_tokens, Len(g.all_tokens)))]
             /\ UNCHANGED outbox
        ELSE \E decode_ok \in BOOLEAN :
               IF ~decode_ok
               THEN /\ wk' = [wk EXCEPT ![r].pc = "fail", ![r].err = "ExecutionError"]
                    /\ UNCHANGED outbox
               ELSE IF OutboxOpen(r)
               THEN /\ outbox' = SendOut(outbox, r,
                                   <<Chunk(wk[r].q.pid, LocalChunkId(g),
                                           Decode(g.items), "String")>>)
                    /\ wk' = [wk EXCEPT ![r].g =
                                [g EXCEPT !.items = <<>>, !.closed = FALSE,
                                          !.id = @ + 1,
                                          !.delivered = @ + Len(g.items),
                                          !.windows = Append(@, g.items)]]
               ELSE /\ wk' = [wk EXCEPT ![r].pc = "fail", ![r].err = "StreamError"]
                    /\ UNCHANGED outbox
  /\ UNCHANGED <<lib, host, configs, active, rt, control, rcvd, log, ret>>

WorkerStep(r) ==
  \/ WorkerRecv(r)
  \/ WorkerCreate(r)
  \/ WorkerInitFail(r)
  \/ MockStep(r)
  \/ LocalPrefill(r)
  \/ LocalNext(r)
  \/ LocalEmit(r)
  \/ WorkerEnd(r)
  \/ WorkerFail(r)

\* ------------------------------------------------- one prompt, any input
Roles == {"user", "system", "USER"}
MessageLists ==
  {<<>>}
  \cup {<<QueryMessage(a, n)>> : a \in Roles, n \in 0..MaxLen}
  \cup {<<QueryMessage(a, n), QueryMessage(b, m)>> :
          a \in Roles, b \in Roles, n \in {0, MaxLen}, m \in 1..MaxLen}
ChunkSizes == {None} \cup {Some(c) : c \in 0..MaxChunk}
TokenLimits == {Some(n) : n \in 0..MaxTokens}
EosSets == {{}, {"eos"}}

\* A runtime whose worker is running and has one prompt in its inbox.
InitGen ==
  /\ configs = {}
  /\ active = None
  /\ \E name \in {MockName, QwenName}, eos \in EosSets,
        ms \in MessageLists, cs \in ChunkSizes, mt \in TokenLimits,
        tools \in BOOLEAN :
       /\ name = MockName => eos = {} /\ mt = Some(0) /\ ~tools
       /\ name = QwenName => Len(ms) = 1 /\ ms[1].role = "user"
       /\ rt = [r \in Runtimes |->
                  IF r = 1 THEN [state |-> "running", config |-> Config(name, eos)]
                  ELSE NoRuntime]
       /\ control = [r \in Runtimes |->
                       IF r # 1 THEN <<>>
                       ELSE IF tools THEN <<WithTools(Prompt(1, ms, cs, mt, None))>>
                       ELSE <<Prompt(1, ms, cs, mt, None)>>]
  /\ outbox = [r \in Runtimes |-> <<>>]
  /\ rcvd = [r \in Runtimes |-> 0]
  /\ wk = [r \in Runtimes |-> IF r = 1 THEN [NoWorker EXCEPT !.pc = "recv"]
                              ELSE NoWorker]
  /\ log = [EmptyLog EXCEPT !.sent = 1, !.made = 1, !.queued = {<<1, 1>>},
                           !.spawns[1] = 1]
  /\ ret = "Ok"
  /\ host = NoHost
  /\ lib = NoCall

NextGen == WorkerStep(1)

SpecGen == InitGen /\ [][NextGen]_vars

\* The worker is a dedicated blocking thread: it runs as long as it has a
\* step to take.
SpecGenLive == InitGen /\ [][NextGen]_vars /\ WF_vars(NextGen)

\* ------------------------------------------------- the caller of a runtime
\* A caller that has panicked makes no further call.
Alive == ret # "panic"
Held(r) == rt[r].state \in {"created", "running"}

\* Faulty variant: every call finds a control receiver.
TakeControlRxAgain(state) == TRUE

\* self.control.1.lock().take(): Some(receiver) until run_stream has taken it.
TakeControlRx(state) == state = "created"

\* LLMRuntime::run_stream: the control receiver is taken out of the runtime
\* and moved into the spawned worker; a second call finds it gone.
RunStream(r) ==
  /\ Alive /\ Held(r)
  /\ IF TakeControlRx(rt[r].state)
     THEN /\ rt' = [rt EXCEPT ![r].state = "running"]
          /\ wk' = [wk EXCEPT ![r] = [NoWorker EXCEPT !.pc = "recv"]]
          /\ log' = Spawned(log, r)
          /\ ret' = "Ok"
     ELSE /\ ret' = "ExecutionError"
          /\ UNCHANGED <<rt, wk, log>>
  /\ UNCHANGED <<lib, host, configs, active, control, outbox, rcvd>>

HasExit(inbox) == \E i \in 1..Len(inbox) : inbox[i].type = "Exit"
\* An Exit is sent now: the prompts put on the inbox of r so far precede
\* it, and those not behind an earlier Exit precede every Exit.
BeforeExit(r, l) ==
  [l EXCEPT !.before = @ \cup {p \in l.queued \ l.behind : p[1] = r}]

\* LLMRuntime::send_stream(msg): what the call does.
Send(r, msg) ==
  /\ IF ControlOpen(r)
     THEN /\ control' = [control EXCEPT ![r] = Append(@, msg)]
          /\ ret' = "Ok"
     ELSE /\ ret' = "ExecutionError"
          /\ UNCHANGED control
  /\ log' = IF msg.type = "Prompt" /\ ControlOpen(r)
            THEN [log EXCEPT
                    !.sent = @ + 1,
                    !.queued = @ \cup {<<r, msg.pid>>},
                    !.behind = IF HasExit(control[r])
                               THEN @ \cup {<<r, msg.pid>>} ELSE @]
            ELSE [log EXCEPT !.sent = @ + 1]
  /\ UNCHANGED <<lib, configs, active, rt, outbox, rcvd, wk>>

\* send_stream called by the owner of the runtime.
SendStream(r, msg) ==
  /\ Alive /\ Held(r)
  /\ log.sent < MaxPrompts
  /\ Send(r, msg)
  /\ UNCHANGED host

\* Who holds the sending half of the response channel of r: the LLMRuntime
\* keeps it in response.0 for as long as it lives, and the worker holds a
\* clone of that Arc until it returns.
ResponseSenders(r) ==
  {h \in {"runtime"} : Held(r)} \cup {h \in {"worker"} : Running(r)}

\* LLMRuntime::recv_stream: Receiver::recv returns the next message, blocks
\* while the outbox is empty and a sender is left, and fails when it is
\* empty and every sender is gone.
Recv(r) ==
  /\ rcvd[r] < Len(outbox[r]) \/ ResponseSenders(r) = {}
  /\ IF rcvd[r] < Len(outbox[r])
     THEN /\ rcvd' = [rcvd EXCEPT ![r] = @ + 1]
          /\ ret' = "Ok"
     ELSE /\ ret' = "StreamError"
          /\ UNCHANGED rcvd
  /\ UNCHANGED <<lib, configs, active, rt, control, outbox, wk, log>>

\* recv_stream called by the owner of the runtime.
RecvStream(r) ==
  /\ Alive /\ Held(r)
  /\ Recv(r)
  /\ UNCHANGED host

\* The effect of dropping an LLMRuntime: Drop sends Exit and ignores a
\* failure, then both receivers held by the runtime are gone.
Dropped(r, runtimes) == [runtimes EXCEPT ![r].state = "dropped"]
DropSendsExit(r, inbox) ==
  IF ControlOpen(r) THEN [inbox EXCEPT ![r] = Append(@, Exit)] ELSE inbox

\* LLMRuntime::shutdown: sends Exit and panics when the send fails.
Shutdown(r) ==
  /\ Alive /\ Held(r)
  /\ log.exits < MaxExits
  /\ log' = IF ControlOpen(r) THEN BeforeExit(r, [log EXCEPT !.exits = @ + 1])
            ELSE [log EXCEPT !.exits = @ + 1]
  /\ IF ControlOpen(r)
     THEN /\ control' = [control EXCEPT ![r] = Append(@, Exit)]
          /\ ret' = "Ok"
          /\ UNCHANGED rt
     ELSE /\ ret' = "panic"
          /\ rt' = Dropped(r, rt)
          /\ UNCHANGED control
  /\ UNCHANGED <<lib, host, configs, active, outbox, rcvd, wk>>

\* The caller lets go of the runtime.
DropRuntime(r) ==
  /\ Alive /\ Held(r)
  /\ control' = DropSendsExit(r, control)
  /\ rt' = Dropped(r, rt)
  /\ ret' = "Ok"
  /\ log' = IF ControlOpen(r) THEN BeforeExit(r, log) ELSE log
  /\ UNCHANGED <<lib, host, configs, active, outbox, rcvd, wk>>

\* --------------------------------------- one runtime used through its API
\* The queries the caller sends: an echo that fills one window and leaves a
\* partial one; a prompt that names its model and that Mock rejects; and a
\* query the worker ignores.
Inputs(pid) ==
  { Prompt(pid, <<QueryMessage("user", MaxLen)>>, Some(MaxChunk), Some(1), None),
    Prompt(pid, <<QueryMessage("system", 1), QueryMessage("system", 1)>>,
           None, Some(0), Some(QwenName)),
    Status(pid, "") }

\* After LLMRuntime::from_config: no worker, no model, empty channels.
Init ==
  /\ configs = {}
  /\ active = None
  /\ \E c \in {Config(MockName, {}), Config(QwenName, {"eos"})} :
       rt = [r \in Runtimes |->
               IF r = 1 THEN [state |-> "created", config |-> c] ELSE NoRuntime]
  /\ control = [r \in Runtimes |-> <<>>]
  /\ outbox = [r \in Runtimes |-> <<>>]
  /\ rcvd = [r \in Runtimes |-> 0]
  /\ wk = [r \in Runtimes |-> NoWorker]
  /\ log = [EmptyLog EXCEPT !.made = 1]
  /\ ret = "Ok"
  /\ host = NoHost
  /\ lib = NoCall

Next ==
  \/ RunStream(1)
  \/ \E msg \in Inputs(log.sent + 1) : SendStream(1, msg)
  \/ RecvStream(1)
  \/ Shutdown(1)
  \/ DropRuntime(1)
  \/ WorkerStep(1)

Spec == Init /\ [][Next]_vars

\* The calls that reach the worker: recv_stream is left to Spec, as it moves
\* only the caller's read position (rcvd), which no step of the worker and
\* no other call reads.
NextLive ==
  \/ RunStream(1)
  \/ \E msg \in Inputs(log.sent + 1) : SendStream(1, msg)
  \/ Shutdown(1)
  \/ DropRuntime(1)
  \/ WorkerStep(1)

\* The worker is a dedicated blocking thread: it is scheduled as long as it
\* has a step to take.
SpecLive == Init /\ [][NextLive]_vars /\ WF_vars(WorkerStep(1))

\* ------------------------------------------------------------- LLMService
\* configs.get(&id): the registered configuration with that name, or None.
\* Faulty variant: an unknown name falls back to any configuration.
LookupOrAny(registry, id) ==
  IF \E c \in registry : c.name = id THEN {c \in registry : c.name = id}
  ELSE registry
Lookup(registry, id) == {c \in registry : c.name = id}

\* A raw configuration as handed to add_config: a text that is JSON or not,
\* with or without the required field `name`.
Raw(json, name, eos) == [json |-> json, name |-> name, eos |-> eos]
RawConfigs ==
  { Raw(FALSE, None, {}),
    Raw(TRUE, None, {}),
    Raw(TRUE, Some(Mock2Name), {}),
    Raw(TRUE, Some(MockName), {"eos"}) }

\* LLMRuntimeConfig::from_raw: serde_json::from_str fails on a text that is
\* not JSON and on an object without its required fields.
FromRaw(raw) ==
  IF raw.json /\ raw.name # None
  THEN Some(Config(UnwrapOr(raw.name, <<>>), raw.eos))
  ELSE None

\* HashMap::insert(c.name, c): the entry of that name is replaced.
Insert(registry, c) == {e \in registry : e.name # c.name} \cup {c}

\* LLMService::list_models: the keys of the registry, one for each entry.
ListModels(registry) ==
  [n \in {e.name : e \in registry} |->
     Cardinality({e \in registry : e.name = n})]

\* LLMService::add_config.
AddConfig(raw) ==
  /\ Alive
  /\ log.adds < MaxAdds
  /\ LET c == FromRaw(raw)
     IN IF c = None
        THEN /\ ret' = "Json"
             /\ log' = [log EXCEPT !.adds = @ + 1, !.raw = Some(raw)]
             /\ UNCHANGED configs
        ELSE LET new == UnwrapOr(c, NoConfig)
             IN /\ configs' = Insert(configs, new)
                /\ ret' = "Ok"
                /\ log' = [log EXCEPT !.adds = @ + 1, !.raw = Some(raw),
                                      !.registered = @ \cup {new.name},
                                      !.added = @ \cup {new.name},
                                      !.call = None]
  /\ UNCHANGED <<lib, host, active, rt, control, outbox, rcvd, wk>>

\* LLMService::activate: shutdown_active (shutdown of the active runtime,
\* which is then dropped), the lookup, from_config and run_stream.  Nothing
\* in it waits for the worker of the runtime it shuts down.
Activate(id) ==
  /\ Alive
  /\ log.made < MaxRuntimes
  /\ LET old == active
         panics == \E r \in old : ~ControlOpen(r)
         exited == [r \in Runtimes |->
                      IF r \in old /\ ControlOpen(r)
                      THEN control[r] \o <<Exit, Exit>> ELSE control[r]]
         gone == [r \in Runtimes |->
                    IF r \in old THEN [rt[r] EXCEPT !.state = "dropped"] ELSE rt[r]]
         found == Lookup(configs, id)
         stopped == [log EXCEPT !.before =
                       @ \cup {p \in log.queued \ log.behind : p[1] \in old},
                     !.call = Some(id)]
         new == log.made + 1
     IN /\ control' = exited
        /\ IF panics
           THEN /\ ret' = "panic"
                /\ active' = None
                /\ rt' = gone
                /\ log' = [log EXCEPT !.call = Some(id)]
                /\ UNCHANGED wk
           ELSE IF found = None
           THEN /\ ret' = "MissingConfigLLM"
                /\ active' = None
                /\ rt' = gone
                /\ log' = stopped
                /\ UNCHANGED wk
           ELSE /\ ret' = "Ok"
                /\ active' = Some(new)
                /\ rt' = [gone EXCEPT ![new] =
                            [state |-> "running",
                             config |-> CHOOSE c \in found : TRUE]]
                /\ wk' = [wk EXCEPT ![new] = [NoWorker EXCEPT !.pc = "recv"]]
                /\ log' = Spawned([stopped EXCEPT !.made = new], new)
  /\ UNCHANGED <<lib, host, configs, outbox, rcvd>>

\* After LLMService::from_runtime_configs: two configurations, none active.
InitService ==
  /\ configs = {Config(MockName, {}), Config(QwenName, {"eos"})}
  /\ active = None
  /\ rt = [r \in Runtimes |-> NoRuntime]
  /\ control = [r \in Runtimes |-> <<>>]
  /\ outbox = [r \in Runtimes |-> <<>>]
  /\ rcvd = [r \in Runtimes |-> 0]
  /\ wk = [r \in Runtimes |-> NoWorker]
  /\ log = [EmptyLog EXCEPT !.registered = {MockName, QwenName}]
  /\ ret = "Ok"
  /\ host = NoHost
  /\ lib = NoCall

NextService ==
  \/ \E id \in {MockName, Mock2Name, QwenName} : Activate(id)
  \/ \E r \in active : \E msg \in Inputs(log.sent + 1) :
       log.sent < MaxServicePrompts /\ SendStream(r, msg)
  \/ \E r \in active : RecvStream(r)
  \/ \E r \in Runtimes : WorkerStep(r)

SpecService == InitService /\ [][NextService]_vars

\* The service with configurations added while it runs.
NextRegistry ==
  \/ \E raw \in RawConfigs : AddConfig(raw)
  \/ NextService

SpecRegistry == InitService /\ [][NextRegistry]_vars

\* ------------------------------------------------------------- commands
\* Faulty variant: a Status is announced as a chunk.
TryRenderStatusAsChunk(query) ==
  IF query.type \in {"Chunk", "Status"} THEN Some("query-stream-chunk")
  ELSE IF query.type = "End" THEN Some("query-stream-end")
  ELSE None

\* Query::try_render_as_event_name: None stands for UndefinedClientEvent.
TryRenderAsEventName(query) ==
  IF query.type = "Chunk" THEN Some("query-stream-chunk")
  ELSE IF query.type = "End" THEN Some("query-stream-end")
  ELSE IF query.type = "Status" THEN Some("query-stream-error")
  ELSE None

\* An emitted event.  src is the place on the outbox of the message it
\* announces, None for a receive error; the program does not carry it.
Event(name, payload, src) == [name |-> name, payload |-> payload, src |-> src]

\* The payload emitted for a message: the text of a Status, else the message.
Payload(query) == IF query.type = "Status" THEN query.msg ELSE query

\* The stream command up to its loop: the lock, the active runtime and
\* send_stream.
Stream(msg) ==
  /\ Alive
  /\ host.pc = "idle"
  /\ IF active = None
     THEN /\ host' = [host EXCEPT !.calls = @ + 1,
                                  !.message = Some(msg),
                                  !.result = "MissingActiveRuntime"]
          /\ UNCHANGED <<lib, configs, active, rt, control, outbox, rcvd, wk, log,
                         ret>>
     ELSE \E r \in active :
            /\ Send(r, msg)
            /\ host' = [host EXCEPT !.calls = @ + 1,
                                    !.message = Some(msg),
                                    !.pc = IF ControlOpen(r) THEN "loop" ELSE "idle",
                                    !.result = IF ControlOpen(r) THEN "Ok"
                                               ELSE "ExecutionError"]

\* The stream command invoked over a run of at most MaxCommands invocations.
StreamCall(msg) ==
  /\ host.calls < MaxCommands
  /\ Stream(msg)

\* The stream command invoked again after an invocation has returned: the
\* invocations are concurrent tasks and take the lock one after the other.
StreamAgain(msg) ==
  /\ host.calls < MaxStreams
  /\ Stream(msg)

\* One turn of the loop of the stream command: recv_stream, then the event.
StreamLoop ==
  /\ host.pc = "loop"
  /\ \E r \in active :
       /\ Recv(r)
       /\ IF rcvd[r] < Len(outbox[r])
          THEN LET query == outbox[r][rcvd[r] + 1]
                   src == <<r, rcvd[r] + 1>>
                   event == TryRenderAsEventName(query)
               IN IF query.type \notin {"Chunk", "Status", "End"}
                  THEN UNCHANGED host
                  ELSE IF event = None
                  THEN host' = [host EXCEPT !.pc = "idle",
                                            !.result = "UndefinedClientEvent",
                                            !.lost = @ \cup {src}]
                  ELSE \E emit_ok \in BOOLEAN :
                         host' =
                           IF ~emit_ok
                           THEN [host EXCEPT !.pc = "idle",
                                             !.result = "StreamError",
                                             !.lost = @ \cup {src}]
                           ELSE [host EXCEPT
                                   !.events = Append(@, Event(UnwrapOr(event, ""),
                                                              Payload(query), Some(src))),
                                   !.pc = IF query.type = "End" THEN "idle" ELSE "loop",
                                   !.result = "Ok"]
          ELSE \E emit_ok \in BOOLEAN :
                 host' =
                   IF ~emit_ok
                   THEN [host EXCEPT !.pc = "idle", !.result = "StreamError"]
                   ELSE [host EXCEPT
                           !.events = Append(@, Event("query-stream-error",
                                                      "StreamError", None)),
                           !.pc = "idle", !.result = "Ok"]

\* The switch_model command: activate under the lock on the service.
SwitchModel(id) ==
  /\ host.pc = "idle"
  /\ Activate(id)

\* The commands invoked by the host, and the workers.
NextCommands ==
  \/ \E id \in {MockName, QwenName} : SwitchModel(id)
  \/ \E msg \in Inputs(log.sent + 1) : StreamCall(msg)
  \/ StreamLoop
  \/ \E r \in Runtimes : WorkerStep(r)

SpecCommands == InitService /\ [][NextCommands]_vars

\* The commands with the scheduling the program has: the task that runs the
\* stream command goes on whenever recv_stream can return, and a spawned
\* worker goes on whenever it can take a step.
SpecCommandsLive ==
  /\ InitService
  /\ [][NextCommands]_vars
  /\ WF_vars(StreamLoop)
  /\ \A r \in Runtimes : WF_vars(WorkerStep(r))

\* Several invocations of the stream command, and the workers.
NextStreams ==
  \/ \E id \in {MockName, QwenName} : SwitchModel(id)
  \/ \E msg \in Inputs(log.sent + 1) : StreamAgain(msg)
  \/ StreamLoop
  \/ \E r \in Runtimes : WorkerStep(r)

SpecStreams == InitService /\ [][NextStreams]_vars

\* ------------------------------------------------------------- templates
\* A chat template is the sequence of its parts: a text, or the tag that
\* opens or closes an if or a for block.  The context makes every condition
\* true and every list one item long.
Tags == {"text", "if", "for", "endif", "endfor"}
EndTag(tag) == IF tag = "if" THEN "endif" ELSE "endfor"
Ok(v) == [ok |-> TRUE, value |-> v]
Err(e) == [ok |-> FALSE, value |-> e]

\* MiniJinja._find_matching_end: the position of the end tag that closes
\* the block opened before pos, 0 when the template ends first.
RECURSIVE FindMatchingEnd(_, _, _, _, _)
FindMatchingEnd(template, pos, last, start_tag, depth) ==
  IF pos > last THEN 0
  ELSE IF template[pos] = start_tag
  THEN FindMatchingEnd(template, pos + 1, last, start_tag, depth + 1)
  ELSE IF template[pos] = EndTag(start_tag)
  THEN IF depth = 1 THEN pos
       ELSE FindMatchingEnd(template, pos + 1, last, start_tag, depth - 1)
  ELSE FindMatchingEnd(template, pos + 1, last, start_tag, depth)

\* MiniJinja.render on template[pos..last]: the texts of the output, each
\* written as its position.  A block without its end tag and an end tag
\* without its block are skipped.
RECURSIVE MiniJinjaRender(_, _, _)
MiniJinjaRender(template, pos, last) ==
  IF pos > last THEN <<>>
  ELSE IF template[pos] = "text"
  THEN <<pos>> \o MiniJinjaRender(template, pos + 1, last)
  ELSE IF template[pos] \in {"if", "for"}
  THEN LET end_pos == FindMatchingEnd(template, pos + 1, last, template[pos], 1)
       IN IF end_pos = 0 THEN MiniJinjaRender(template, pos + 1, last)
          ELSE MiniJinjaRender(template, pos + 1, end_pos - 1)
               \o MiniJinjaRender(template, end_pos + 1, last)
  ELSE MiniJinjaRender(template, pos + 1, last)

\* validate_template: FALSE stands for the SyntaxError it raises.
RECURSIVE ValidateTemplate(_, _, _)
ValidateTemplate(template, pos, block_stack) ==
  IF pos > Len(template) THEN block_stack = <<>>
  ELSE LET tag == template[pos] IN
       IF tag \in {"if", "for"}
       THEN ValidateTemplate(template, pos + 1, Append(block_stack, tag))
       ELSE IF tag \in {"endif", "endfor"}
       THEN /\ block_stack # <<>>
            /\ EndTag(block_stack[Len(block_stack)]) = tag
            /\ ValidateTemplate(template, pos + 1,
                                SubSeq(block_stack, 1, Len(block_stack) - 1))
       ELSE ValidateTemplate(template, pos + 1, block_stack)

\* TemplateType::detect_from_source
DetectFromSource(source) ==
  IF ValidateTemplate(source, 1, <<>>) THEN "Jinja" ELSE "Unknown"

\* TemplateProcessor::render
TemplateProcessorRender(kind, source) ==
  IF kind = "Jinja" THEN Ok(MiniJinjaRender(source, 1, Len(source)))
  ELSE Err("TemplateError")

Templates == UNION {[1..n -> Tags] : n \in 0..MaxTemplate}

\* TemplateProcessor::from_raw_template(source)
FromRawTemplate ==
  \E source \in Templates :
    /\ lib = NoCall
    /\ lib' = Call("from_raw_template", source, DetectFromSource(source))
    /\ UNCHANGED <<configs, active, rt, control, outbox, rcvd, wk, log, ret, host>>

\* TemplateProcessor::with_jinja_template().render(source, input), as
\* LocalRuntime does for the chat template of its tokenizer configuration.
RenderJinja ==
  \E source \in Templates :
    /\ lib = NoCall
    /\ lib' = Call("render", source, TemplateProcessorRender("Jinja", source))
    /\ UNCHANGED <<configs, active, rt, control, outbox, rcvd, wk, log, ret, host>>

\* TemplateProcessor::from_raw_template(source)?.render(source, input)
RenderDetected ==
  \E source \in Templates :
    /\ lib = NoCall
    /\ lib' = Call("render", source,
                   TemplateProcessorRender(DetectFromSource(source), source))
    /\ UNCHANGED <<configs, active, rt, control, outbox, rcvd, wk, log, ret, host>>

\* ------------------------------------------------------------ tool calls
\* The texts a model may produce: plain text and <tool_call> segments.
Outputs ==
  UNION {{[i \in 1..n |-> Token(i, f[i])] :
            f \in [1..n -> {"tok"} \cup SegmentKinds]} : n \in 0..MaxSegments}

\* Qwen3ToolCallParser.parse(output)
ParseOutput ==
  \E output \in Outputs :
    /\ lib = NoCall
    /\ lib' = Call("parse", output, Parse(output))
    /\ UNCHANGED <<configs, active, rt, control, outbox, rcvd, wk, log, ret, host>>

\* ------------------------------------------------------------- hub cache
\* A repository identifier is the sequence of its characters; "a" stands
\* for the ASCII letters and digits and "%" for any character that is
\* neither one of them nor '-', '_', '.' or '/'.
Chars == {"a", "-", ".", "/", "%"}
IsAsciiAlphanumeric(c) == c = "a"

\* str::split(sep): the segments between the separators.
RECURSIVE Split(_, _)
Split(s, sep) ==
  IF \E i \in 1..Len(s) : s[i] = sep
  THEN LET i == CHOOSE j \in 1..Len(s) :
                  s[j] = sep /\ \A k \in 1..j - 1 : s[k] # sep
       IN <<SubSeq(s, 1, i - 1)>> \o Split(SubSeq(s, i + 1, Len(s)), sep)
  ELSE <<s>>

\* Faulty variant: a segment may hold "..".
IsValidSegmentWithDots(s) ==
  /\ s # <<>>
  /\ \A i \in 1..Len(s) : IsAsciiAlphanumeric(s[i]) \/ s[i] \in {"-", "_", "."}
\* The closure is_valid_segment of validate_model_name.
IsValidSegment(s) ==
  /\ s # <<>>
  /\ \A i \in 1..Len(s) : IsAsciiAlphanumeric(s[i]) \/ s[i] \in {"-", "_", "."}
  /\ ~\E i \in 1..Len(s) - 1 : s[i] = "." /\ s[i + 1] = "."

\* LLMRuntimeConfig::validate_model_name: TRUE for Ok(()).  Its second
\* pass over split_once('/') repeats the test of the two segments.
ValidateModelName(name) ==
  LET parts == Split(name, "/")
  IN /\ Len(parts) = 2
     /\ IsValidSegment(parts[1]) /\ IsValidSegment(parts[2])

\* LLMRuntimeConfig::from_hf_local_cache as the library is built (the
\* shortcut for "Mock" exists under cfg(test) only).  found tells whether
\* the cache holds a tokenizer and the weights of the repository; probed
\* whether a path of the cache has been looked up.
FromHfLocalCacheResult(model, found) ==
  IF ~ValidateModelName(model)
  THEN [result |-> Err("MissingConfigLLM"), probed |-> FALSE]
  ELSE IF ~found
  THEN [result |-> Err("MissingConfigLLM"), probed |-> TRUE]
  ELSE [result |-> Ok(model), probed |-> TRUE]

ModelIds == UNION {[1..n -> Chars] : n \in 0..MaxId}

FromHfLocalCache ==
  \E model \in ModelIds, found \in BOOLEAN :
    /\ lib = NoCall
    /\ lib' = Call("from_hf_local_cache", model,
                   FromHfLocalCacheResult(model, found))
    /\ UNCHANGED <<configs, active, rt, control, outbox, rcvd, wk, log, ret, host>>

\* -------------------------------------------------------------- backends
\* create_backend_by_model_index_file: the backend for sharded weights.
\* files_ok tells whether the index, the shards and the configuration load.
CreateBackendByModelIndexFile(model_name, files_ok) ==
  IF ~files_ok THEN Err("ExecutionError")
  ELSE IF Contains(model_name, "Qwen") THEN Ok("Qwen3")
  ELSE IF Contains(model_name, "Llama3") THEN Ok("Llama")
  ELSE IF Contains(model_name, "gemma") THEN Ok("Gemma3")
  ELSE Err("UnsupportedModelType")

\* create_backend_by_model_file: the backend for a single model.safetensors.
CreateBackendByModelFile(model_name, files_ok) ==
  IF Contains(model_name, "gemma")
  THEN IF files_ok THEN Ok("Gemma3") ELSE Err("ExecutionError")
  ELSE Err("UnsupportedModelType")

\* What LocalRuntime::init gets from load_safetensor_weights.
LoadWeights(model_name, files_ok) ==
  IF files_ok THEN Ok(LoadSafetensorWeights(model_name)) ELSE Err("ExecutionError")

ModelNames ==
  UNION {[1..n -> {"Qwen", "Llama", "Llama3", "gemma", "Phi"}] : n \in 0..MaxNameParts}

\* One of the three dispatchers is called with a configuration name.
CreateBackend ==
  \E model_name \in ModelNames, files_ok \in BOOLEAN :
    /\ lib = NoCall
    /\ \/ lib' = Call("create_backend_by_model_index_file", model_name,
                      CreateBackendByModelIndexFile(model_name, files_ok))
       \/ lib' = Call("create_backend_by_model_file", model_name,
                      CreateBackendByModelFile(model_name, files_ok))
       \/ lib' = Call("load_safetensor_weights", model_name,
                      LoadWeights(model_name, files_ok))
    /\ UNCHANGED <<configs, active, rt, control, outbox, rcvd, wk, log, ret, host>>

\* -------------------------------------------- functions without a runtime
\* One call is examined in each behaviour.
NextLib ==
  \/ FromRawTemplate
  \/ RenderJinja
  \/ RenderDetected
  \/ ParseOutput
  \/ FromHfLocalCache
  \/ CreateBackend

SpecLib == InitService /\ [][NextLib]_vars

\* ------------------------------------------------------------- properties
Pids == 1..log.sent
Idx(r) == 1..Len(outbox[r])
EndsOf(r, pid) ==
  {i \in Idx(r) : outbox[r][i].type = "End" /\ outbox[r][i].pid = pid}
ChunksOf(r, pid) ==
  {i \in Idx(r) : outbox[r][i].type = "Chunk" /\ outbox[r][i].pid = pid}
StatusesOf(r, pid) ==
  {i \in Idx(r) : outbox[r][i].type = "Status" /\ outbox[r][i].pid = pid}
BusyPcs == {"create", "initfail", "mock", "prefill", "chunks", "end", "fail"}
\* The worker of r is processing prompt pid.
Working(r, pid) == wk[r].q.pid = pid /\ wk[r].pc \in BusyPcs
FailedOn(r, pid) == {f \in log.failed : f.r = r /\ f.pid = pid}
\* The worker of r took prompt pid and is through with it without an error.
CompletedOk(r, pid) ==
  <<r, pid>> \in log.taken /\ ~Working(r, pid) /\ FailedOn(r, pid) = {}

\* C1: a prompt that the worker accepted and whose generation completed
\* without error has exactly one End on the outbox, placed after all of its
\* Chunks; no prompt ever has a Chunk after its End or a second End.
C1_EndOnceAfterChunks ==
  \A r \in Runtimes : \A pid \in Pids :
    /\ Cardinality(EndsOf(r, pid)) <= 1
    /\ \A e \in EndsOf(r, pid) : \A c \in ChunksOf(r, pid) : c < e
    /\ CompletedOk(r, pid) => Cardinality(EndsOf(r, pid)) = 1

\* C1 witness: a prompt completed with two chunks followed by its End, and
\* the worker is back at the inbox.
C1_Witness ==
  \E pid \in Pids :
    /\ CompletedOk(1, pid)
    /\ Cardinality(ChunksOf(1, pid)) >= 2
    /\ EndsOf(1, pid) # {}
    /\ wk[1].pc = "recv"

\* The k-th chunk of a prompt on the outbox of r.
NthChunk(r, pid, k) ==
  CHOOSE i \in ChunksOf(r, pid) :
    Cardinality({j \in ChunksOf(r, pid) : j <= i}) = k

\* C2: within the stream of one prompt the chunk ids are 0, 1, 2, ... in
\* the order of arrival.
C2_ChunkIdsFromZero ==
  \A r \in Runtimes : \A pid \in Pids :
    \A k \in 1..Cardinality(ChunksOf(r, pid)) :
      outbox[r][NthChunk(r, pid, k)].id = k - 1

\* C3 as stated: every prompt whose processing failed has no End on the
\* outbox and has a Status carrying the error text there.
C3_FailureHasStatus ==
  \A f \in log.failed :
    /\ EndsOf(f.r, f.pid) = {}
    /\ \E i \in StatusesOf(f.r, f.pid) : outbox[f.r][i].msg = f.err

\* C3 amended: every prompt whose processing failed has no End on the
\* outbox, and it has a Status carrying the error text there whenever the
\* runtime has not been dropped (the outbox still has its receiver).
C3_FailureReportedWhileOpen ==
  \A f \in log.failed :
    /\ EndsOf(f.r, f.pid) = {}
    /\ OutboxOpen(f.r) =>
         \E i \in StatusesOf(f.r, f.pid) : outbox[f.r][i].msg = f.err

\* C3 witness: a generation failed after a chunk had been sent; the chunk
\* and the Status are on the open outbox, no End is.
C3_Witness ==
  \E f \in log.failed :
    /\ ~f.init /\ OutboxOpen(f.r)
    /\ ChunksOf(f.r, f.pid) # {}
    /\ StatusesOf(f.r, f.pid) # {}
    /\ EndsOf(f.r, f.pid) = {}

\* C4 as stated: after execute has returned an error the worker sends the
\* Status and returns to the idle state, waiting on the control inbox.
C4_ErrorReturnsToIdle ==
  [][\A r \in Runtimes :
       wk[r].pc = "fail" => wk'[r].pc \in {"fail", "recv"}]_vars

\* C5: on the outbox of a runtime every message of an earlier prompt comes
\* before every message of a later prompt.
C5_StreamsInSendOrder ==
  \A r \in Runtimes : \A i \in Idx(r) : \A j \in Idx(r) :
    i < j => outbox[r][i].pid <= outbox[r][j].pid

\* C5 witness: two prompts were queued together, and both streams are on
\* the outbox, each with a chunk and its End.
C5_Witness ==
  \E p1 \in Pids : \E p2 \in Pids :
    /\ p1 < p2
    /\ ChunksOf(1, p1) # {} /\ EndsOf(1, p1) # {}
    /\ ChunksOf(1, p2) # {} /\ EndsOf(1, p2) # {}
    /\ rcvd[1] = 0

\* C6 as stated: at no moment are two workers of the same service running.
C6_OneWorkerAtATime == Cardinality({r \in Runtimes : Running(r)}) <= 1

TakenBy(r) == {p \in log.taken : p[1] = r}
MessagesOf(r, pid) == {i \in Idx(r) : outbox[r][i].pid = pid}

\* C7 as stated: when the worker has terminated, every prompt put on the
\* inbox before an Exit has its End or its Status on the outbox, and a
\* prompt put on the inbox behind an Exit has no message there.
C7_ExitNeverTruncates ==
  \A r \in Runtimes :
    /\ wk[r].pc = "done" =>
         \A p \in log.before :
           p[1] = r => EndsOf(r, p[2]) # {} \/ StatusesOf(r, p[2]) # {}
    /\ \A p \in log.behind : p[1] = r => MessagesOf(r, p[2]) = {}

\* C7 amended: Exit is acted on between prompts only.  When the worker has
\* terminated, every prompt it took from the inbox has its End on the
\* outbox or has failed; a prompt put on the inbox before the Exit was left
\* there only if an earlier prompt had failed and ended the worker; and a
\* prompt put on the inbox behind an Exit has no message on the outbox.
C7_ExitBetweenPrompts ==
  \A r \in Runtimes :
    /\ wk[r].pc = "done" =>
         /\ \A p \in TakenBy(r) : EndsOf(r, p[2]) # {} \/ FailedOn(r, p[2]) # {}
         /\ \A p \in log.before \ log.taken :
              p[1] = r => \E f \in log.failed : f.r = r /\ f.pid < p[2]
    /\ \A p \in log.behind : p[1] = r => MessagesOf(r, p[2]) = {}

\* C7 witness: the worker was ended by an Exit; the prompt sent before it
\* has its chunks and its End, the prompt sent behind it has nothing.
C7_Witness ==
  /\ wk[1].pc = "done" /\ log.failed = {}
  /\ \E p \in log.before : ChunksOf(1, p[2]) # {} /\ EndsOf(1, p[2]) # {}
  /\ \E p \in log.behind : MessagesOf(1, p[2]) = {}

\* C8: once an Exit is on the inbox of a spawned worker, the worker
\* eventually terminates; a terminated worker stays terminated and puts
\* nothing more on the outbox.
C8_ExitTerminatesWorker ==
  /\ (wk[1].pc # "none" /\ HasExit(control[1])) ~> (wk[1].pc = "done")
  /\ [][wk[1].pc = "done" => wk'[1].pc = "done" /\ outbox' = outbox]_vars

\* C8 witness: the runtime was dropped while a prompt was waiting; the
\* worker served it and then terminated on the Exit sent by Drop.
C8_Witness ==
  /\ rt[1].state = "dropped" /\ log.exits = 0
  /\ wk[1].pc = "done" /\ log.failed = {} /\ log.taken # {}

\* C9 as stated: when create_model or init fails on the first prompt there
\* is exactly one Status with the error on the outbox, no Chunk and no End
\* of that prompt, and the worker has terminated having taken no other
\* prompt.
C9_InitFailureOneStatus ==
  \A f \in log.failed :
    f.init =>
      /\ Cardinality(StatusesOf(f.r, f.pid)) = 1
      /\ \A i \in StatusesOf(f.r, f.pid) : outbox[f.r][i].msg = f.err
      /\ ChunksOf(f.r, f.pid) = {} /\ EndsOf(f.r, f.pid) = {}
      /\ wk[f.r].pc = "done" /\ TakenBy(f.r) = {<<f.r, f.pid>>}

\* C9 amended: as C9, but the one Status is sure to be on the outbox only
\* while the runtime has not been dropped; a worker that fails after the
\* drop puts nothing there.
C9_InitFailureEndsWorker ==
  \A f \in log.failed :
    f.init =>
      /\ Cardinality(StatusesOf(f.r, f.pid)) <= 1
      /\ OutboxOpen(f.r) => Cardinality(StatusesOf(f.r, f.pid)) = 1
      /\ \A i \in StatusesOf(f.r, f.pid) : outbox[f.r][i].msg = f.err
      /\ ChunksOf(f.r, f.pid) = {} /\ EndsOf(f.r, f.pid) = {}
      /\ wk[f.r].pc = "done" /\ TakenBy(f.r) = {<<f.r, f.pid>>}

\* C9 witness: init failed; the Status is on the open outbox and a later
\* control message is still in the inbox of the terminated worker.
C9_Witness ==
  \E f \in log.failed :
    /\ f.init /\ OutboxOpen(f.r)
    /\ StatusesOf(f.r, f.pid) # {}
    /\ control[f.r] # <<>> /\ wk[f.r].pc = "done"

C11_OneWorkerPerRuntime ==
  /\ [](\A r \in Runtimes :
          /\ log.spawns[r] <= 1
          /\ (wk[r].pc # "none") = (log.spawns[r] = 1)
          /\ rt[r].state = "running" => log.spawns[r] = 1)
  /\ [][(rt[1].state = "running" /\ ret' # ret
         /\ UNCHANGED <<rt, control, outbox, rcvd, wk, log>>)
        => ret' = "ExecutionError"]_vars
  /\ [][\A r \in Runtimes :
          log.spawns[r] = 1 => log'.spawns[r] = 1]_vars

\* C11 witness: run_stream was called again while the worker it spawned was
\* executing a prompt; the call returned ExecutionError.
C11_Witness ==
  /\ rt[1].state = "running" /\ ret = "ExecutionError"
  /\ log.spawns[1] = 1 /\ log.exits = 0
  /\ wk[1].pc \in BusyPcs /\ ControlOpen(1)

\* C12 as stated: when the worker of a runtime has terminated and every
\* message on its outbox has been received, a recv_stream call returns (with
\* StreamError) instead of blocking.
C12_RecvReturnsOnDeadWorker ==
  \A r \in Runtimes :
    (Alive /\ Held(r) /\ wk[r].pc = "done" /\ rcvd[r] = Len(outbox[r]))
      => ENABLED RecvStream(r)

RECURSIVE SumData(_, _, _)
SumData(box, pid, i) ==
  IF i > Len(box) THEN 0
  ELSE (IF box[i].type = "Chunk" /\ box[i].pid = pid /\ box[i].kind = "String"
        THEN Len(box[i].data) ELSE 0) + SumData(box, pid, i + 1)
\* The generated units delivered in the String chunks of the prompt that the
\* worker of r is executing: bytes for Mock, tokens for LocalRuntime.
DeliveredUnits(r) ==
  IF wk[r].current_model = "Mock" THEN SumData(outbox[r], wk[r].q.pid, 1)
  ELSE wk[r].g.delivered

\* C13 as stated: when inference has returned Ok, the usage that End will
\* carry is present, total_tokens = prompt_tokens + completion_tokens, and
\* completion_tokens is the number of units delivered in the String chunks;
\* for Mock prompt_tokens is the byte length of the JSON of the messages and
\* completion_tokens the byte length of the echoed content.
C13_UsageLaw ==
  \A r \in Runtimes :
    wk[r].pc = "end" =>
      /\ wk[r].usage # None
      /\ LET u == UnwrapOr(wk[r].usage, TokenUsage(0, 0))
         IN /\ u.total_tokens = u.prompt_tokens + u.completion_tokens
            /\ u.completion_tokens = DeliveredUnits(r)
            /\ wk[r].current_model = "Mock" =>
                 /\ u.prompt_tokens = JsonLen(wk[r].q.messages)
                 /\ u.completion_tokens =
                      Len(UnwrapOr(MockMessageBytes(wk[r].q.messages), <<>>))

\* The data of the String chunks of a prompt on an outbox, concatenated in
\* arrival order.
RECURSIVE ConcatData(_, _, _)
ConcatData(box, pid, i) ==
  IF i > Len(box) THEN <<>>
  ELSE (IF box[i].type = "Chunk" /\ box[i].pid = pid /\ box[i].kind = "String"
        THEN box[i].data ELSE <<>>) \o ConcatData(box, pid, i + 1)
IsUser(role) == role \in {"user", "USER", "User"}
HasUser(messages) == \E i \in 1..Len(messages) : IsUser(messages[i].role)
\* The content the Mock is to echo, for a list it does not reject.
Echoed(messages) ==
  IF Len(messages) = 0 THEN Bytes(NoticeLen)
  ELSE IF Len(messages) = 1 THEN messages[1].content
  ELSE messages[CHOOSE i \in 1..Len(messages) :
                  /\ IsUser(messages[i].role)
                  /\ \A j \in 1..(i - 1) : ~IsUser(messages[j].role)].content
Rejected(messages) == Len(messages) > 1 /\ ~HasUser(messages)
\* The worker of r runs the Mock on a prompt: inference is sending, has
\* returned Ok, or has returned an error.
MockRuns(r) ==
  wk[r].current_model = "Mock" /\ wk[r].pc \in {"mock", "end", "fail"}
\* Every chunk of pid has at most size bytes, every chunk but the last
\* exactly size.
WindowsOf(r, pid, size) ==
  \A c \in ChunksOf(r, pid) :
    /\ Len(outbox[r][c].data) <= size
    /\ (\E d \in ChunksOf(r, pid) : d > c) => Len(outbox[r][c].data) = size

\* C14 as stated: when Mock::inference has returned Ok the chunks of the
\* prompt concatenate to the echoed content, each has at most chunk_size
\* bytes and all but the last exactly chunk_size; a list of several messages
\* without a user message fails with UnexpectedMessage and has no chunk.
C14_MockEchoes ==
  \A r \in Runtimes :
    MockRuns(r) =>
      LET q == wk[r].q
      IN /\ Rejected(q.messages) =>
              /\ ChunksOf(r, q.pid) = {}
              /\ wk[r].pc # "end"
              /\ wk[r].err = "UnexpectedMessage"
         /\ ~Rejected(q.messages) => wk[r].err = ""
         /\ wk[r].pc = "end" =>
              /\ ConcatData(outbox[r], q.pid, 1) = Echoed(q.messages)
              /\ WindowsOf(r, q.pid, ChunkSize(q))

\* C14 amended: as C14, with the bound on the chunks for chunk_size >= 1;
\* with chunk_size = 0 the whole content is sent as a single chunk.
C14_MockEchoesInWindows ==
  \A r \in Runtimes :
    MockRuns(r) =>
      LET q == wk[r].q
      IN /\ Rejected(q.messages) =>
              /\ ChunksOf(r, q.pid) = {}
              /\ wk[r].pc # "end"
              /\ wk[r].err = "UnexpectedMessage"
         /\ ~Rejected(q.messages) => wk[r].err = ""
         /\ wk[r].pc = "end" =>
              /\ ConcatData(outbox[r], q.pid, 1) = Echoed(q.messages)
              /\ ChunkSize(q) >= 1 => WindowsOf(r, q.pid, ChunkSize(q))
              /\ ChunkSize(q) = 0 => Cardinality(ChunksOf(r, q.pid)) <= 1

\* C14 witness: of a system message and a USER message the second was
\* echoed, in one full chunk and a partial one.
C14_Witness ==
  /\ MockRuns(1) /\ wk[1].pc = "end"
  /\ Len(wk[1].q.messages) = 2 /\ ~IsUser(wk[1].q.messages[1].role)
  /\ wk[1].q.messages[1].content # <<>>
  /\ wk[1].q.messages[2].role = "USER"
  /\ Cardinality(ChunksOf(1, 1)) = 2
  /\ ConcatData(outbox[1], 1, 1) = Bytes(MaxLen)

Names(registry) == {e.name : e \in registry}

\* C15 as stated: list_models gives the names registered so far, each once;
\* add_config with a text that is not JSON returns an error and leaves the
\* registry as it is; with a configuration of a new name it adds one entry,
\* with one of a registered name it replaces that entry and the number of
\* entries stays; and activate of a name added by add_config gives an active
\* runtime of that name whose worker has been spawned.
C15_RegistryKeyedByName ==
  /\ [](/\ DOMAIN ListModels(configs) = log.registered
        /\ \A n \in DOMAIN ListModels(configs) : ListModels(configs)[n] = 1)
  /\ [][log'.adds # log.adds =>
          LET raw == UnwrapOr(log'.raw, Raw(FALSE, None, {}))
              n == UnwrapOr(raw.name, <<>>)
          IN /\ ~raw.json => ret' # "Ok"
             /\ ret' # "Ok" => configs' = configs
             /\ (raw.json /\ raw.name # None) =>
                  /\ ret' = "Ok"
                  /\ Lookup(configs', n) = {Config(n, raw.eos)}
                  /\ {e \in configs' : e.name # n} = {e \in configs : e.name # n}
                  /\ Cardinality(configs') =
                       Cardinality(configs) + (IF n \in Names(configs) THEN 0 ELSE 1)]_vars
  /\ [](\A id \in log.call :
          id \in log.added =>
            /\ active # None
            /\ \A a \in active :
                 rt[a].config.name = id /\ wk[a].pc # "none" /\ Held(a))

EventIdx == 1..Len(host.events)
\* The outbox message an event announces.
Announced(k) ==
  LET src == UnwrapOr(host.events[k].src, <<1, 1>>) IN outbox[src[1]][src[2]]
FromOutbox(k) == host.events[k].src # None
SameOutbox(j, k) ==
  /\ FromOutbox(j) /\ FromOutbox(k)
  /\ UnwrapOr(host.events[j].src, <<1, 1>>)[1] = UnwrapOr(host.events[k].src, <<1, 1>>)[1]

\* C16: every event announces one outbox message under the name of its kind
\* (the text of a Status as payload) or a receive error; the events of one
\* outbox are in the order of its messages, every message the command has
\* received has its event unless the emit failed, no event of a prompt
\* follows its 'query-stream-end', and an invocation without an active
\* runtime returns MissingActiveRuntime, sends nothing and emits nothing.
C16_EventsFollowOutbox ==
  /\ [](\A k \in EventIdx :
          LET e == host.events[k]
          IN IF FromOutbox(k)
             THEN LET q == Announced(k)
                  IN /\ q.type = "Chunk" =>
                          e.name = "query-stream-chunk" /\ e.payload = q
                     /\ q.type = "Status" =>
                          e.name = "query-stream-error" /\ e.payload = q.msg
                     /\ q.type = "End" =>
                          e.name = "query-stream-end" /\ e.payload = q
             ELSE e.name = "query-stream-error")
  /\ [](\A j \in EventIdx : \A k \in EventIdx :
          (j < k /\ SameOutbox(j, k)) =>
            /\ UnwrapOr(host.events[j].src, <<1, 1>>)[2]
                 < UnwrapOr(host.events[k].src, <<1, 1>>)[2]
            /\ host.events[j].name = "query-stream-end" =>
                 Announced(j).pid # Announced(k).pid)
  /\ [](UNION {{<<r, i>> : i \in 1..rcvd[r]} : r \in Runtimes}
        = {UnwrapOr(host.events[k].src, <<1, 1>>) : k \in {j \in EventIdx : FromOutbox(j)}}
          \cup host.lost)
  /\ [][(host'.calls # host.calls /\ active = None) =>
          /\ host'.result = "MissingActiveRuntime"
          /\ host'.pc = "idle" /\ host'.events = host.events
          /\ control' = control /\ log'.sent = log.sent]_vars

\* C16 witness: the command has forwarded two chunks and the End of its
\* prompt and has returned.
C16_Witness ==
  /\ host.pc = "idle" /\ host.result = "Ok" /\ Len(host.events) = 3
  /\ host.events[1].name = "query-stream-chunk"
  /\ host.events[2].name = "query-stream-chunk"
  /\ host.events[3].name = "query-stream-end"
  /\ rcvd[1] = 3 /\ host.lost = {}

\* The prompt LocalRuntime::inference is working on or has worked on.
LocalRuns == {r \in Runtimes : wk[r].current_model = "Local" /\ wk[r].g.forwards > 0}
Generating(r) == wk[r].pc \in {"prefill", "chunks"}

C18_EosOnlyLast ==
  \A r \in LocalRuns :
    \A i \in 1..Len(wk[r].g.all_tokens) - 1 :
      wk[r].g.all_tokens[i].t \notin rt[r].config.eos_token_ids

\* C19: once a forward pass or the sampling has failed in the loop, the
\* window cut short by the failure is the only chunk still sent: no further
\* forward pass is run, no further token is generated, and inference ends
\* with the error, never with End.
C19_FailureEndsGeneration ==
  [][\A r \in Runtimes :
       (wk[r].pc = "chunks" /\ wk[r].g.sample_error # None) =>
         /\ wk'[r].g.forwards = wk[r].g.forwards
         /\ wk'[r].g.all_tokens = wk[r].g.all_tokens
         /\ outbox'[r] # outbox[r] => wk[r].g.closed
         /\ wk'[r].pc \in {"chunks", "fail"}]_vars

ToolCallsOf(r, pid) == {i \in ChunksOf(r, pid) : outbox[r][i].kind = "ToolCall"}
StringsOf(r, pid) == {i \in ChunksOf(r, pid) : outbox[r][i].kind = "String"}
\* What the parser of the backend finds in the decode of all tokens.
ParsedCalls(r) ==
  IF ToolCallParser(wk[r].current_model) = None THEN None
  ELSE Parse(Decode(wk[r].g.all_tokens))

\* C20: when inference has returned Ok and the parser of the backend finds
\* calls in the decode of all generated tokens, the prompt has exactly one
\* ToolCall chunk, behind all its String chunks, with the id after the last
\* String chunk's and the list of calls as data; no ToolCall chunk is sent
\* when there is no parser or it finds nothing.
C20_ToolCallChunk ==
  \A r \in Runtimes :
    LET pid == wk[r].q.pid IN
    /\ (wk[r].pc = "end" /\ ParsedCalls(r) # None) =>
         /\ Cardinality(ToolCallsOf(r, pid)) = 1
         /\ \A t \in ToolCallsOf(r, pid) :
              /\ \A i \in StringsOf(r, pid) : i < t
              /\ outbox[r][t].id = Cardinality(StringsOf(r, pid))
              /\ outbox[r][t].data = UnwrapOr(ParsedCalls(r), <<>>)
    /\ (wk[r].pc = "end" /\ ParsedCalls(r) = None) => ToolCallsOf(r, pid) = {}

\* C21: the forward passes of a prompt see a cache that holds nothing of an
\* earlier prompt: clear_kv_cache before the prefill has emptied it,
\* whatever the family of the weights.
C21_FreshKvCache ==
  \A r \in Runtimes :
    (wk[r].current_model = "Local" /\ wk[r].pc = "chunks") =>
      wk[r].kv \subseteq {wk[r].q.pid}

RECURSIVE Concat(_)
Concat(ws) == IF ws = <<>> THEN <<>> ELSE Head(ws) \o Concat(Tail(ws))
IsPrefix(a, b) == Len(a) <= Len(b) /\ a = SubSeq(b, 1, Len(a))
CeilDiv(n, s) == (n + s - 1) \div s
\* The runtimes whose LocalRuntime works with a chunk size of at least one.
Chunking == {r \in LocalRuns : ChunkSize(wk[r].q) >= 1}

\* C22: for chunk_size s >= 1 the windows taken from the n generated tokens
\* are consecutive and each token is in one window only; when inference
\* returns Ok there are ceil(n/s) windows, none longer than s and all but the
\* last of s items, their concatenation is the token sequence, and the
\* prompt has one String chunk per window, numbered by its position and
\* holding the decode of that window.
C22_ChunkerPartitions ==
  \A r \in Chunking :
    LET g == wk[r].g
        s == ChunkSize(wk[r].q)
        n == Len(g.all_tokens)
        pid == wk[r].q.pid
    IN /\ IsPrefix(Concat(g.windows) \o g.items, g.all_tokens)
       /\ \A k \in 1..Len(g.windows) :
            Len(g.windows[k]) >= 1 /\ Len(g.windows[k]) <= s
       /\ wk[r].pc = "end" =>
            /\ Len(g.windows) = CeilDiv(n, s)
            /\ \A k \in 1..Len(g.windows) - 1 : Len(g.windows[k]) = s
            /\ Concat(g.windows) = g.all_tokens
            /\ g.windows = Chunks(g.all_tokens, s)
            /\ Cardinality(ChunksOf(r, pid)) = Len(g.windows)
            /\ \A k \in 1..Len(g.windows) :
                 LET c == outbox[r][NthChunk(r, pid, k)]
                 IN c.id = k - 1 /\ c.kind = "String"
                    /\ c.data = Decode(g.windows[k])

\* C22 witness: three tokens have been sent in a full window and a partial
\* one, and inference has returned Ok.
C22_Witness ==
  /\ 1 \in Chunking /\ wk[1].pc = "end" /\ ChunkSize(wk[1].q) = 2
  /\ Len(wk[1].g.all_tokens) = 3 /\ Len(wk[1].g.windows) = 2
  /\ Len(wk[1].g.windows[2]) = 1

\* The template without its texts.
TagsOf(template) == SelectSeq(template, LAMBDA x : x # "text")
\* A block and its end tag with nothing between them.
ClosedAt(s, i) == i < Len(s) /\ s[i] \in {"if", "for"} /\ s[i + 1] = EndTag(s[i])
\* The tags left when every closed block has been taken out.
RECURSIVE Unmatched(_)
Unmatched(s) ==
  IF \E i \in 1..Len(s) : ClosedAt(s, i)
  THEN LET i == CHOOSE j \in 1..Len(s) : ClosedAt(s, j)
       IN Unmatched(SubSeq(s, 1, i - 1) \o SubSeq(s, i + 2, Len(s)))
  ELSE s
WellFormed(template) == Unmatched(TagsOf(template)) = <<>>

\* C23: a template with an unclosed block or an unmatched end tag is
\* rendered by no processor: render returns TemplateError and no string, and
\* detection gives Unknown.
C23_StrictBlocks ==
  lib.op \in {"render", "from_raw_template"} /\ ~WellFormed(lib.arg) =>
    IF lib.op = "render"
    THEN ~lib.result.ok /\ lib.result.value = "TemplateError"
    ELSE lib.result = "Unknown"

\* The positions of the segments of a text that hold a call.
ValidCalls(text) == SelectSeq(text, LAMBDA x : x.t = "call")

\* C24: the calls the Qwen3 parser returns are the segments that hold a
\* call, in order of appearance, with the ids call_0, call_1, ... without a
\* gap, whatever segments were skipped; it returns None when no segment
\* holds a call.
C24_ConsecutiveCallIds ==
  lib.op = "parse" =>
    LET valid == ValidCalls(lib.arg)
        calls == UnwrapOr(lib.result, <<>>)
    IN /\ lib.result = None <=> valid = <<>>
       /\ Len(calls) = Len(valid)
       /\ \A i \in 1..Len(calls) :
            calls[i].id = i - 1 /\ calls[i].call = valid[i].k

Count(s, c) == Cardinality({i \in 1..Len(s) : s[i] = c})
\* org/name: one '/', neither first nor last, only letters, digits, '-',
\* '_' and '.' around it, and no ".." anywhere.
OrgSlashName(id) ==
  /\ Count(id, "/") = 1 /\ id[1] # "/" /\ id[Len(id)] # "/"
  /\ \A i \in 1..Len(id) : id[i] \in {"a", "-", "_", ".", "/"}
  /\ \A i \in 1..Len(id) - 1 : ~(id[i] = "." /\ id[i + 1] = ".")

\* C25: from_hf_local_cache returns a configuration only for an identifier
\* of the form org/name, and for every other identifier it returns a
\* configuration error without having looked up a path of the cache.
C25_ValidatesBeforeFiles ==
  lib.op = "from_hf_local_cache" =>
    /\ lib.result.result.ok => OrgSlashName(lib.arg)
    /\ ~OrgSlashName(lib.arg) =>
         /\ lib.result.result = Err("MissingConfigLLM")
         /\ ~lib.result.probed
    /\ OrgSlashName(lib.arg) => lib.result.probed

\* C25 witness: the identifier ../a is refused before any path is probed.
C25_Witness ==
  /\ lib.op = "from_hf_local_cache" /\ lib.arg = <<".", ".", "/", "a">>
  /\ ~lib.result.result.ok /\ ~lib.result.probed

Dispatchers ==
  {"create_backend_by_model_index_file", "create_backend_by_model_file",
   "load_safetensor_weights"}
\* The family the order Qwen, Llama, gemma gives a name.
FamilyOf(name) ==
  IF Contains(name, "Qwen") THEN Ok("Qwen3")
  ELSE IF Contains(name, "Llama") THEN Ok("Llama")
  ELSE IF Contains(name, "gemma") THEN Ok("Gemma3")
  ELSE Err("UnsupportedModelType")

\* C26: whenever the files load, the backend is the family that the order
\* Qwen, Llama, gemma gives the configuration name, UnsupportedModelType for
\* any other name, for sharded weights and for a single file alike.
C26_BackendByName ==
  (lib.op \in Dispatchers /\ lib.result # Err("ExecutionError")) =>
    lib.result = FamilyOf(lib.arg)

ServiceIds == {MockName, Mock2Name, QwenName}
Registered(id) == \E c \in configs : c.name = id

\* C27 as stated: an activate that fails because the name is not in the
\* registry leaves the registry, the active runtime, its inbox and its
\* worker as they were.
C27_FailedActivateChangesNothing ==
  [][\A id \in ServiceIds :
       (Activate(id) /\ ret' = "MissingConfigLLM") =>
         /\ configs' = configs /\ active' = active
         /\ rt' = rt /\ control' = control /\ wk' = wk]_vars

\* C27 amended: an activate of a name that is not in the registry returns
\* MissingConfigLLM unless the shutdown before it panics; it then leaves the
\* registry as it was, but the runtime that was active has been sent Exit
\* and dropped and the service has no active runtime.
C27_FailedActivateShutsDown ==
  [][\A id \in ServiceIds :
       (Activate(id) /\ ~Registered(id)) =>
         /\ ret' \in {"MissingConfigLLM", "panic"}
         /\ ret' = "MissingConfigLLM" =>
              /\ configs' = configs /\ active' = None /\ wk' = wk
              /\ \A r \in active :
                   rt'[r].state = "dropped" /\ HasExit(control'[r])
              /\ \A r \in Runtimes \ active :
                   rt'[r] = rt[r] /\ control'[r] = control[r]]_vars

\* C27 witness: activating a name that is not registered has failed and has
\* taken the runtime that was active with it.
C27_Witness ==
  /\ ret = "MissingConfigLLM" /\ log.call = Some(Mock2Name)
  /\ ~Registered(Mock2Name) /\ active = None
  /\ \E r \in Runtimes : rt[r].state = "dropped" /\ HasExit(control[r])

\* C28: switching models never panics: no activate ends in a panic, also
\* when the worker of the runtime that was active has already terminated
\* and its control receiver is gone.
C28_ActivateNeverPanics ==
  [][\A id \in ServiceIds : Activate(id) => ret' # "panic"]_vars

\* C29: the stream command always returns: once it has sent its Prompt and
\* entered its receive loop it eventually leaves the loop and releases the
\* lock on the service, whether generation succeeds or fails.
C29_StreamReturns ==
  (host.pc = "loop" /\ \E q \in host.message : q.type = "Prompt")
    ~> (host.pc = "idle")

\* The prompts whose End has been taken from the outbox.
EndReceived(r, pid) ==
  \E i \in 1..rcvd[r] : outbox[r][i].type = "End" /\ outbox[r][i].pid = pid
\* An invocation of the stream command sends its Prompt in this step.
SendsPrompt ==
  /\ host'.calls = host.calls + 1 /\ host'.pc = "loop"
  /\ \E q \in host'.message : q.type = "Prompt"
\* Runtime r hands its next outbox message to the stream command in this step.
Consumes(r) == host.pc = "loop" /\ rcvd'[r] = rcvd[r] + 1

\* C30: stream commands are serialized by the lock on the service: when an
\* invocation sends its Prompt, every Prompt sent before has had its stream
\* received up to End, and an invocation takes from the outbox only
\* messages of its own Prompt.
C30_StreamsSerialized ==
  [][/\ SendsPrompt => \A p \in log.queued : EndReceived(p[1], p[2])
     /\ \A r \in Runtimes :
          Consumes(r) =>
            \E q \in host.message : outbox[r][rcvd[r] + 1].pid = q.pid]_vars

====
